---- MODULE Spec2Model ----
(***************************************************************************)
(* Model of the opening-line graph of nicotsx/chess-openings:              *)
(*   src/src/lib/openings-dag.ts   class ChessOpeningDAG                    *)
(*   src/src/lib/chess-opening.ts  class ChessOpening (delegating wrapper)  *)
(* and of the training session that plays against it:                     *)
(*   src/src/pages/trainer.tsx     component ChessOpeningTrainer            *)
(*                                                                         *)
(* The rules engine (chess.js) is an external library.  It is modelled on  *)
(* the fragment of chess generated from the starting position by the       *)
(* moves e3, d3 (White) and e6, Nc6 (Black).  In that fragment every piece *)
(* moves at most once and nothing is captured, so a move of the fragment   *)
(* is legal exactly when it is the mover's turn and the move has not been  *)
(* played yet, and the FEN the engine prints is computed rank by rank.     *)
(***************************************************************************)
EXTENDS Integers, Sequences, FiniteSets, TLC

VARIABLES
  nodes,          \* ChessOpeningDAG.nodes: Record<string, DAGNode>
  fenToLineName,  \* ChessOpeningDAG.fenToLineName: Record<string, string>
  chess,          \* ChessOpeningDAG.chess: the scratch rules-engine instance
  last,           \* the last operation called on the graph, with its outcome
  pre,            \* nodes / fenToLineName / chess as they were before it
  given,          \* number of lines handed to the graph so far
  \* ChessOpeningTrainer (src/src/pages/trainer.tsx): the component's state
  OPENINGS,          \* the array of ChessOpening objects the module imports
  game,              \* useState(new Chess()): the one mutable board
  currentOpening,    \* useState<ChessOpening>(RuyLopez)
  message,           \* useState({ type, content })
  highlightSquares,  \* useState({}): square -> background colour
  arrows,            \* useState<[Square, Square, string][]>([])
  gameMode,          \* useState<GameMode>('Explore')
  isProcessingMove,  \* useState(false)
  variationName,     \* useState<string | undefined>()
  selectedSquare,    \* useState<Square | null>(null)
  timers,            \* the pending setTimeout callbacks, oldest first
  event              \* the last session event, and what a reply timer did

dagVars == <<nodes, fenToLineName, chess, last, pre, given>>

trainerVars == <<OPENINGS, game, currentOpening, message, highlightSquares, arrows,
                 gameMode, isProcessingMove, variationName, selectedSquare,
                 timers, event>>

vars == <<dagVars, trainerVars>>

-----------------------------------------------------------------------------
(* Bounds of the model.                                                    *)

\* most lines handed to the graph in one behaviour, over all its addLine
\* and addLines calls
MaxLines == 3
\* Math.random() yields k / RandomGrain for k in 0 .. RandomGrain - 1
RandomGrain == 2

-----------------------------------------------------------------------------
(* Small helpers on sequences.                                             *)

Range(s) == {s[i] : i \in 1..Len(s)}

SeqsUpTo(S, n) == UNION {[1..m -> S] : m \in 0..n}

Max(a, b) == IF a >= b THEN a ELSE b

-----------------------------------------------------------------------------
(* The rules engine: chess.js `Chess`, on the modelled fragment.           *)

WhiteMoves == {"e3", "d3"}
BlackMoves == {"e6", "Nc6"}
PawnMoves  == {"e3", "d3", "e6"}
SanMoves   == WhiteMoves \cup BlackMoves

\* What the engine's permissive move parser reads a move string as: the
\* standard notation of the move it denotes ("e2e3" names the pawn move e3
\* by its squares), or NoSan for a string that denotes no move ("e9").
NoSan == "-"
ParseMove(str) ==
  CASE str = "e3"   -> "e3"
    [] str = "e2e3" -> "e3"
    [] str = "d3"   -> "d3"
    [] str = "e6"   -> "e6"
    [] str = "Nc6"  -> "Nc6"
    [] OTHER        -> NoSan

\* new Chess() / chess.reset(): the standard starting position.
ChessNew == [placed |-> {}, turn |-> "w", half |-> 0, full |-> 1]

ChessLegal(c, san) ==
  /\ san \in SanMoves
  /\ san \notin c.placed
  /\ (c.turn = "w") = (san \in WhiteMoves)

\* The position after a legal move: the piece is placed, the turn passes,
\* the half-move clock restarts on a pawn move and the full-move number
\* advances after Black's move.
ChessApply(c, san) ==
  [placed |-> c.placed \cup {san},
   turn   |-> IF c.turn = "w" THEN "b" ELSE "w",
   half   |-> IF san \in PawnMoves THEN 0 ELSE c.half + 1,
   full   |-> IF c.turn = "b" THEN c.full + 1 ELSE c.full]

\* chess.move(str): the engine accepts or rejects the move string.
ChessMove(c, str) ==
  LET san == ParseMove(str) IN
    IF ChessLegal(c, san)
    THEN [ok |-> TRUE, chess |-> ChessApply(c, san), san |-> san]
    ELSE [ok |-> FALSE, chess |-> c, san |-> NoSan]

\* chess.fen(): the FEN of the engine's position.
ChessFen(c) ==
  LET p == c.placed
      r8 == IF "Nc6" \in p THEN "r1bqkbnr" ELSE "rnbqkbnr"
      r7 == IF "e6" \in p THEN "pppp1ppp" ELSE "pppppppp"
      r6 == IF "Nc6" \in p
            THEN (IF "e6" \in p THEN "2n1p3" ELSE "2n5")
            ELSE (IF "e6" \in p THEN "4p3" ELSE "8")
      r3 == IF "d3" \in p
            THEN (IF "e3" \in p THEN "3PP3" ELSE "3P4")
            ELSE (IF "e3" \in p THEN "4P3" ELSE "8")
      r2 == IF "d3" \in p
            THEN (IF "e3" \in p THEN "PPP2PPP" ELSE "PPP1PPPP")
            ELSE (IF "e3" \in p THEN "PPPP1PPP" ELSE "PPPPPPPP")
  IN r8 \o "/" \o r7 \o "/" \o r6 \o "/8/8/" \o r3 \o "/" \o r2 \o "/RNBQKBNR "
        \o c.turn \o " KQkq - " \o ToString(c.half) \o " " \o ToString(c.full)

\* How the engine reports a rejected move: older releases return null,
\* newer ones throw their own Error.  The release is not pinned by the
\* sources, so both are outcomes of a rejected move.
EngineRejects == {"null", "throw"}

-----------------------------------------------------------------------------
(* JavaScript values and plain-object lookup.                              *)

JSUndefined    == [t |-> "undefined"]
JSNull         == [t |-> "null"]
JSString(s)    == [t |-> "string", v |-> s]
JSArray(a)     == [t |-> "array", v |-> a]
JSBuiltin(key) == [t |-> "builtin", of |-> key]

\* Property names every plain object ({}) inherits from Object.prototype.
ObjectPrototypeKeys == {"constructor", "toString", "hasOwnProperty"}

Returned(v) == [kind |-> "return", value |-> v]
Threw(e)    == [kind |-> "throw", error |-> e]

\* obj[key] is truthy-or-not for the node map: an own node, or an inherited
\* member of Object.prototype, is truthy; a missing key is undefined.
NodesTruthy(ns, key) == key \in DOMAIN ns \/ key \in ObjectPrototypeKeys

\* this.fenToLineName[key] as a JavaScript value.
LineNameAt(names, key) ==
  IF key \in DOMAIN names THEN JSString(names[key])
  ELSE IF key \in ObjectPrototypeKeys THEN JSBuiltin(key)
  ELSE JSUndefined

\* JavaScript truthiness of such a value: undefined and "" are falsy.
Truthy(v) == v # JSUndefined /\ v # JSNull /\ v # JSString("")

-----------------------------------------------------------------------------
(* Plain objects used as maps.  Record<string, DAGNode> and                 *)
(* Record<string, string> are functions on their own keys; the moves of a   *)
(* node keep the order in which their keys were first assigned, which is    *)
(* the order Object.keys reports.                                           *)

MapPut(f, k, v) == [x \in DOMAIN f \cup {k} |-> IF x = k THEN v ELSE f[x]]

ObjHas(o, k) == \E i \in 1..Len(o) : o[i].key = k

ObjGet(o, k) == (CHOOSE e \in Range(o) : e.key = k).val

ObjKeys(o) == [i \in 1..Len(o) |-> o[i].key]

\* o[k] = v always adds an entry, also when the key is there already
ObjSetAppending(o, k, v) == Append(o, [key |-> k, val |-> v])

\* o[k] = v: an existing key keeps its place and takes the new value, a new
\* key goes last.
ObjSet(o, k, v) ==
  IF ObjHas(o, k)
  THEN [i \in 1..Len(o) |-> IF o[i].key = k THEN [key |-> k, val |-> v] ELSE o[i]]
  ELSE Append(o, [key |-> k, val |-> v])

-----------------------------------------------------------------------------
(* ChessOpeningDAG.                                                         *)

\* new DAGNode(fen)
DAGNode(fen) == [fen |-> fen, moves |-> <<>>]

StartFen == ChessFen(ChessNew)

\* constructor(): the root node, labelled 'Root', and a fresh scratch engine.
Constructed ==
  [nodes         |-> [f \in {StartFen} |-> DAGNode(StartFen)],
   fenToLineName |-> [f \in {StartFen} |-> "Root"],
   chess         |-> ChessNew]

\* a node is made for the position whether or not it has one already
EnsureNodeAlways(ns, fen) == MapPut(ns, fen, DAGNode(fen))

\* the test is inverted: a node is made only where there is one already
EnsureNodeInverted(ns, fen) ==
  IF NodesTruthy(ns, fen) THEN MapPut(ns, fen, DAGNode(fen)) ELSE ns

\* if (!this.nodes[fen]) this.nodes[fen] = new DAGNode(fen)
EnsureNode(ns, fen) ==
  IF ~NodesTruthy(ns, fen) THEN MapPut(ns, fen, DAGNode(fen)) ELSE ns

\* the edge is recorded with the source position as its target
RecordEdgeToSource(ns, currentFen, move, childFen) ==
  IF currentFen \in DOMAIN ns
  THEN [ns EXCEPT ![currentFen].moves = ObjSet(@, move, currentFen)]
  ELSE ns

\* const node = this.nodes[currentFen]; if (node) node.moves[move] = childFen
\* (currentFen is a FEN, never a member of Object.prototype)
RecordEdge(ns, currentFen, move, childFen) ==
  IF currentFen \in DOMAIN ns
  THEN [ns EXCEPT ![currentFen].moves = ObjSet(@, move, childFen)]
  ELSE ns

\* if (!this.fenToLineName[childFen]) this.fenToLineName[childFen] = lineName
AssignLineName(names, childFen, lineName) ==
  IF ~Truthy(LineNameAt(names, childFen))
  THEN MapPut(names, childFen, lineName)
  ELSE names

\* The Error addLine throws when chess.move returns a falsy result, and the
\* Error the engine itself throws.  A message is the sequence of the parts
\* of its template.
InvalidMoveMessage(move, currentFen) ==
  <<"Invalid move '", move, "' from FEN: ", currentFen>>

EngineMessage(move) == <<"Invalid move: ", move>>

RejectedError(rej, move, currentFen) ==
  IF rej = "null"
  THEN [name |-> "Error", message |-> InvalidMoveMessage(move, currentFen)]
  ELSE [name |-> "Error", message |-> EngineMessage(move)]

\* The body of addLine's loop from move i on.  g holds nodes, fenToLineName
\* and chess; the result adds the outcome and, on a throw, the index of the
\* move that was rejected.
RECURSIVE addLineLoop(_, _, _, _, _, _)
addLineLoop(g, movesArray, lineName, i, currentFen, rej) ==
  IF i > Len(movesArray)
  THEN [nodes |-> g.nodes, fenToLineName |-> g.fenToLineName, chess |-> g.chess,
        outcome |-> Returned(JSUndefined), k |-> 0]
  ELSE
    LET move       == movesArray[i]
        moveResult == ChessMove(g.chess, move)
    IN IF ~moveResult.ok
       THEN [nodes |-> g.nodes, fenToLineName |-> g.fenToLineName,
             chess |-> g.chess,
             outcome |-> Threw(RejectedError(rej, move, currentFen)), k |-> i]
       ELSE
         LET childFen == ChessFen(moveResult.chess)
             nodes1   == EnsureNode(g.nodes, childFen)
             nodes2   == RecordEdge(nodes1, currentFen, move, childFen)
             names1   == AssignLineName(g.fenToLineName, childFen, lineName)
         IN addLineLoop([nodes |-> nodes2, fenToLineName |-> names1,
                         chess |-> moveResult.chess],
                        movesArray, lineName, i + 1, childFen, rej)

\* the scratch engine is left where the previous line stopped
addLineNoReset(g, movesArray, lineName, rej) ==
  LET currentFen == ChessFen(g.chess)
      nodes0     == EnsureNode(g.nodes, currentFen)
  IN addLineLoop([nodes |-> nodes0, fenToLineName |-> g.fenToLineName,
                  chess |-> g.chess],
                 movesArray, lineName, 1, currentFen, rej)

\* addLine(movesArray, lineName)
addLine(g, movesArray, lineName, rej) ==
  LET chess0     == ChessNew
      currentFen == ChessFen(chess0)
      nodes0     == EnsureNode(g.nodes, currentFen)
  IN addLineLoop([nodes |-> nodes0, fenToLineName |-> g.fenToLineName,
                  chess |-> chess0],
                 movesArray, lineName, 1, currentFen, rej)

\* addLines(lines) from line j on: a throw of addLine ends the loop.
RECURSIVE addLinesLoop(_, _, _, _)
addLinesLoop(g, lines, j, rej) ==
  IF j > Len(lines)
  THEN [nodes |-> g.nodes, fenToLineName |-> g.fenToLineName, chess |-> g.chess,
        outcome |-> Returned(JSUndefined), j |-> 0, k |-> 0]
  ELSE
    LET r == addLine(g, lines[j].moves, lines[j].name, rej)
    IN IF r.outcome.kind = "throw"
       THEN [nodes |-> r.nodes, fenToLineName |-> r.fenToLineName,
             chess |-> r.chess, outcome |-> r.outcome, j |-> j, k |-> r.k]
       ELSE addLinesLoop([nodes |-> r.nodes, fenToLineName |-> r.fenToLineName,
                          chess |-> r.chess], lines, j + 1, rej)

\* addLines(lines)
addLines(g, lines, rej) == addLinesLoop(g, lines, 1, rej)

\* getNextMoves(fen): Object.keys of the node's moves; an inherited member
\* of Object.prototype is a truthy "node" without moves, and
\* Object.keys(undefined) throws a TypeError.
getNextMoves(ns, fen) ==
  IF fen \in DOMAIN ns THEN Returned(JSArray(ObjKeys(ns[fen].moves)))
  ELSE IF NodesTruthy(ns, fen)
       THEN Threw([name |-> "TypeError",
                   message |-> <<"Cannot convert undefined or null to object">>])
       ELSE Returned(JSArray(<<>>))

\* Math.floor(Math.random() * n) for Math.random() = r / RandomGrain
RandomIndex(r, n) == (r * n) \div RandomGrain

\* the index is rounded up instead of down
getRandomMoveCeil(ns, fen, r) ==
  LET res == getNextMoves(ns, fen) IN
    IF res.kind = "throw" THEN res
    ELSE LET moves == res.value.v
             idx   == (r * Len(moves) + RandomGrain - 1) \div RandomGrain
         IN IF Len(moves) = 0 THEN Returned(JSNull)
            ELSE IF idx + 1 \in 1..Len(moves)
                 THEN Returned(JSString(moves[idx + 1]))
                 ELSE Returned(JSUndefined)

\* getRandomMove(fen); r / RandomGrain is what Math.random() yields
getRandomMove(ns, fen, r) ==
  LET res == getNextMoves(ns, fen) IN
    IF res.kind = "throw" THEN res
    ELSE LET moves       == res.value.v
             randomIndex == RandomIndex(r, Len(moves))
         IN IF Len(moves) = 0 THEN Returned(JSNull)
            ELSE IF randomIndex + 1 \in 1..Len(moves)
                 THEN Returned(JSString(moves[randomIndex + 1]))
                 ELSE Returned(JSUndefined)

\* getCurrentLineName(fen)
getCurrentLineName(names, fen) == Returned(LineNameAt(names, fen))

-----------------------------------------------------------------------------
(* Inputs.                                                                  *)

\* The lines handed to the graph: two lines that transpose into one
\* position, a prefix written with the square-by-square spelling and an
\* empty name, a branch, and a line whose second move the engine rejects.
\* type Line = { name: string; moves: string[] }
LinePool ==
  { [name |-> "A", moves |-> <<"e3", "e6", "d3">>],
    [name |-> "B", moves |-> <<"d3", "e6", "e3">>],
    [name |-> "",  moves |-> <<"e2e3", "e6">>],
    [name |-> "B", moves |-> <<"e3", "Nc6", "d3">>],
    [name |-> "A", moves |-> <<"e3", "e9", "d3">>] }

\* Every position of the fragment, by playing out every move order.
RECURSIVE ChessReachable(_, _)
ChessReachable(c, n) ==
  {c} \cup (IF n = 0 THEN {}
            ELSE UNION {ChessReachable(ChessApply(c, san), n - 1) :
                          san \in {m \in SanMoves : ChessLegal(c, m)}})

ChessPositions == ChessReachable(ChessNew, Cardinality(SanMoves))

\* The position a FEN of the fragment denotes.
PositionOf(fen) == CHOOSE c \in ChessPositions : ChessFen(c) = fen

\* The positions a line of the pool can reach.
RECURSIVE SetMax(_)
SetMax(S) == IF S = {} THEN 0
             ELSE LET x == CHOOSE y \in S : TRUE IN Max(x, SetMax(S \ {x}))

LongestLine == SetMax({Len(l.moves) : l \in LinePool})

Fens == {ChessFen(c) : c \in ChessReachable(ChessNew, LongestLine)}

\* Strings handed to the queries: every FEN a line of the pool can reach,
\* a FEN outside the fragment, a string that is no FEN, and a name found on
\* Object.prototype.
QueryStrings ==
  Fens \cup {"8/8/8/8/8/8/8/8 w - - 0 1", "not a fen", "constructor"}

\* The argument of a query: a string, or nothing.
QueryArgs == {JSString(str) : str \in QueryStrings} \cup {JSUndefined}

\* a parameter with a default value
WithDefault(arg, default) == IF arg = JSUndefined THEN default ELSE arg.v

\* ChessOpening.initialPosition for initialPosition = 'start'
initialPosition == ChessFen(ChessNew)

-----------------------------------------------------------------------------
(* ChessOpeningTrainer: the session component of src/src/pages/trainer.tsx. *)
(* A handler runs to its end before the next event; a setTimeout callback   *)
(* is a closure of the render that created it, so it keeps that render's    *)
(* currentOpening, while `game` is the same Chess instance in every render. *)

\* most setTimeout callbacks pending at one time
MaxTimers == 2

\* The squares a move of the fragment leaves and reaches, and a square no
\* piece of the fragment can move from or to.
MoveSquares(san) ==
  CASE san = "e3"  -> [from |-> "e2", to |-> "e3"]
    [] san = "d3"  -> [from |-> "d2", to |-> "d3"]
    [] san = "e6"  -> [from |-> "e7", to |-> "e6"]
    [] san = "Nc6" -> [from |-> "b8", to |-> "c6"]
    [] OTHER       -> [from |-> "undefined", to |-> "undefined"]

Squares == {"e2", "e3", "d2", "d3", "e7", "e6", "b8", "c6", "a4"}

\* A move handed to game.move as { from, to, promotion }.
JSMove(from, to) == [t |-> "object", from |-> from, to |-> to, promotion |-> "q"]

\* game.move(move) for a move string or a { from, to } object.  A rejected
\* move leaves the game as it is, whether the engine throws or returns null.
GameMove(c, move) ==
  IF move.t = "string" THEN ChessMove(c, move.v)
  ELSE LET named == {san \in SanMoves : /\ MoveSquares(san).from = move.from
                                         /\ MoveSquares(san).to = move.to}
       IN IF named # {} /\ ChessLegal(c, CHOOSE san \in named : TRUE)
          THEN LET san == CHOOSE x \in named : TRUE
               IN [ok |-> TRUE, chess |-> ChessApply(c, san), san |-> san]
          ELSE [ok |-> FALSE, chess |-> c, san |-> NoSan]

\* game.moves({ square, verbose: true })
GameMoves(c, square) ==
  {san \in SanMoves : ChessLegal(c, san) /\ MoveSquares(san).from = square}

\* game.load(fen)
GameLoad(fen) == PositionOf(fen)

\* new ChessOpening(name, playerColor, data)
ChessOpening(name, playerColor, data) ==
  LET built == addLines(Constructed, data.lines, "null") IN
    [name            |-> name,
     playerColor     |-> playerColor,
     initialPosition |-> ChessFen(ChessNew),
     dag             |-> [nodes |-> built.nodes,
                          fenToLineName |-> built.fenToLineName]]

\* The openings of the session: the opening shown first, which the user
\* plays as White, and one the user plays as Black.
RuyLopez ==
  ChessOpening("Ruy Lopez", "white",
               [lines |-> << [name |-> "A", moves |-> <<"e3", "e6", "d3">>],
                             [name |-> "B", moves |-> <<"e3", "Nc6", "d3">>] >>])

BlackOpening ==
  ChessOpening("Black Opening", "black",
               [lines |-> << [name |-> "B", moves |-> <<"d3", "e6", "e3">>] >>])

\* The array '@/lib/openings' exports, built when the module is loaded.
OpeningsModule == <<RuyLopez, BlackOpening>>

\* OPENINGS.find((o) => o.name === opening)
FindOpening(opening) ==
  LET found == {i \in 1..Len(OPENINGS) : OPENINGS[i].name = opening}
  IN IF found = {} THEN JSUndefined
     ELSE OPENINGS[CHOOSE i \in found : \A j \in found : i <= j]

ClickMessage ==
  [type |-> "info",
   content |-> <<"Click on a piece and then click on a square to make a move.">>]

CompletedMessage ==
  [type |-> "success",
   content |-> <<"You have successfully completed the opening line!">>]

CorrectMessage == [type |-> "success", content |-> <<"Correct move!">>]

MistakeMessage ==
  [type |-> "error",
   content |-> <<"Mistake! That move is not part of the opening line.">>]

TryAgainMessage == [type |-> "info", content |-> <<"Let's try that move again.">>]

OpponentPlayedMessage(san) ==
  [type |-> "info", content |-> <<"Opponent played: ", san>>]

Highlight(square, colour) == [square |-> square, backgroundColor |-> colour]

\* resetGame(opening) and makeOpponentMove(), as the closures of the render
\* whose currentOpening is `closure`.  s is the session state they act on,
\* r / RandomGrain what Math.random() yields in getRandomMove.  The two
\* functions call each other; resetBoard is what resetGame does before it
\* decides whether the opponent moves first.
resetBoard(s) ==
  [s EXCEPT !.game = ChessNew,
            !.highlightSquares = {},
            !.arrows = <<>>,
            !.message = ClickMessage,
            !.variationName = JSString("")]

RECURSIVE makeOpponentMove(_, _, _)
makeOpponentMove(s, closure, r) ==
  LET currentFen   == ChessFen(s.game)
      opponentMove == getRandomMove(closure.dag.nodes, currentFen, r).value
      s1           == [s EXCEPT !.isProcessingMove = TRUE]
  IN IF ~Truthy(opponentMove)
     THEN \* return resetGame(currentOpening)
          LET s2 == resetBoard([s1 EXCEPT !.message = CompletedMessage])
          IN IF closure.playerColor = "black"
             THEN makeOpponentMove(s2, closure, r)
             ELSE [s2 EXCEPT !.isProcessingMove = FALSE]
     ELSE [s1 EXCEPT !.timers =
             Append(@, [kind |-> "reply", delay |-> 500, closure |-> closure,
                        opponentMove |-> opponentMove.v,
                        currentFen |-> currentFen])]

resetGame(s, opening, closure, r) ==
  LET s1 == resetBoard(s)
  IN IF opening.playerColor = "black"
     THEN makeOpponentMove(s1, closure, r)
     ELSE [s1 EXCEPT !.isProcessingMove = FALSE]

\* makeMove(move): the move on the game, and the variation name once the
\* game is past move 5.
makeMove(s, closure, move) ==
  LET result == GameMove(s.game, move)
      s1     == [s EXCEPT !.game = result.chess]
      variation == getCurrentLineName(closure.dag.fenToLineName,
                                      ChessFen(s1.game)).value
  IN [result |-> [ok |-> result.ok, san |-> result.san,
                  before |-> ChessFen(s.game), after |-> ChessFen(result.chess)],
      s |-> IF result.ok /\ s1.game.full > 5 /\ Truthy(variation)
            THEN [s1 EXCEPT !.variationName = variation]
            ELSE s1]

\* The callback makeOpponentMove hands to setTimeout(..., 500), for the
\* pending timer t.  When the engine rejects the move the callback ends
\* there (game.move throws, or move.san is read from null).
opponentMoveCallback(s, t, r) ==
  LET s1    == [s EXCEPT !.arrows = <<>>, !.highlightSquares = {}]
      moved == makeMove(s1, t.closure, JSString(t.opponentMove))
  IN IF ~moved.result.ok THEN s1
     ELSE
       LET s2 == [moved.s EXCEPT !.message = OpponentPlayedMessage(moved.result.san),
                                 !.isProcessingMove = FALSE]
           correctMoves == getNextMoves(t.closure.dag.nodes,
                                        moved.result.after).value.v
       IN IF Len(correctMoves) = 0
          THEN resetGame([s2 EXCEPT !.message = CompletedMessage],
                         t.closure, t.closure, r)
          ELSE s2

\* highlightPossibleMove(square)
highlightPossibleMove(s, square) ==
  LET moves == GameMoves(s.game, square) IN
    IF moves # {}
    THEN [s EXCEPT !.selectedSquare = JSString(square),
                   !.highlightSquares =
                     {Highlight(MoveSquares(san).to, "rgba(0, 255, 0, 0.3)") :
                        san \in moves}]
    ELSE [s EXCEPT !.selectedSquare = JSNull, !.highlightSquares = {}]

\* The arrows drawn for a list of moves from the position fen, each found
\* by playing the move on a new Chess(fen).
ArrowsFor(fen, moves, colour) ==
  [i \in 1..Len(moves) |->
     LET moveResult == ChessMove(PositionOf(fen), moves[i])
     IN <<MoveSquares(moveResult.san).from, MoveSquares(moveResult.san).to, colour>>]

\* highlightCorrectMove(fen)
highlightCorrectMove(s, closure, fen) ==
  LET correctMove == getNextMoves(closure.dag.nodes, fen).value.v
      drawn       == ArrowsFor(fen, correctMove, "red")
  IN [s EXCEPT !.arrows = drawn,
               !.highlightSquares =
                 UNION {{Highlight(drawn[i][1], "rgba(255, 0, 0, 0.3)"),
                         Highlight(drawn[i][2], "rgba(255, 0, 0, 0.3)")} :
                        i \in 1..Len(drawn)}]

\* handleMistake(previousFen), in a render whose gameMode is mode
handleMistake(s, closure, mode, previousFen) ==
  LET s1 == highlightCorrectMove([s EXCEPT !.message = MistakeMessage],
                                 closure, previousFen)
  IN [s1 EXCEPT !.isProcessingMove = TRUE,
                !.timers =
                  Append(@, [kind |-> mode, delay |-> 1500, closure |-> closure,
                             previousFen |-> previousFen])]

\* The callbacks handleMistake hands to setTimeout(..., 1500).
bustCallback(s, t, r) == resetGame(s, t.closure, t.closure, r)

exploreCallback(s, t) ==
  [s EXCEPT !.game = GameLoad(t.previousFen),
            !.highlightSquares = {},
            !.arrows = <<>>,
            !.message = TryAgainMessage,
            !.isProcessingMove = FALSE]

\* array.includes(x), and the array after splice(indexOf(x), 1)
Includes(array, x) == \E i \in 1..Len(array) : array[i] = x

SpliceOut(array, x) ==
  LET at == CHOOSE i \in 1..Len(array) :
              array[i] = x /\ \A j \in 1..(i - 1) : array[j] # x
  IN [i \in 1..(Len(array) - 1) |-> IF i < at THEN array[i] ELSE array[i + 1]]

\* handleSquareClick(square)
handleSquareClick(s, closure, mode, square, r) ==
  LET currentFen == ChessFen(s.game) IN
    IF s.isProcessingMove THEN s
    ELSE IF s.selectedSquare # JSNull
            /\ \E h \in s.highlightSquares : h.square = square
    THEN
      LET moved == makeMove(s, closure, JSMove(s.selectedSquare.v, square))
          correctMoves == getNextMoves(closure.dag.nodes,
                                       currentFen).value.v
          s1 == IF Includes(correctMoves, moved.result.san)
                THEN makeOpponentMove([moved.s EXCEPT !.message = CorrectMessage],
                                      closure, r)
                ELSE handleMistake(moved.s, closure, mode, moved.result.before)
      IN IF ~moved.result.ok THEN moved.s
         ELSE [s1 EXCEPT !.selectedSquare = JSNull, !.highlightSquares = {}]
    ELSE highlightPossibleMove(s, square)

\* onDrop(sourceSquare, targetSquare)
onDrop(s, closure, mode, sourceSquare, targetSquare, r) ==
  LET currentFen == ChessFen(s.game) IN
    IF s.isProcessingMove THEN s
    ELSE
      LET moved == makeMove(s, closure, JSMove(sourceSquare, targetSquare))
          correctMoves == getNextMoves(closure.dag.nodes,
                                       currentFen).value.v
      IN IF ~moved.result.ok THEN moved.s
         ELSE IF ~Includes(correctMoves, moved.result.san)
         THEN handleMistake(moved.s, closure, mode, moved.result.before)
         ELSE
           LET others == SpliceOut(correctMoves, moved.result.san)
               s1 == IF Len(others) > 0
                     THEN [moved.s EXCEPT !.arrows =
                             ArrowsFor(currentFen, others, "lightblue")]
                     ELSE moved.s
           IN makeOpponentMove([s1 EXCEPT !.message = CorrectMessage], closure, r)

\* handleSelectOpening(opening)
handleSelectOpening(s, closure, opening, r) ==
  LET selectedOpening == FindOpening(opening) IN
    IF selectedOpening # JSUndefined
    THEN resetGame([s EXCEPT !.currentOpening = selectedOpening],
                   selectedOpening, closure, r)
    ELSE s

-----------------------------------------------------------------------------
(* The state machine.                                                       *)

Graph == [nodes |-> nodes, fenToLineName |-> fenToLineName, chess |-> chess]

Init ==
  /\ nodes = Constructed.nodes
  /\ fenToLineName = Constructed.fenToLineName
  /\ chess = Constructed.chess
  /\ last = [op |-> "constructor"]
  /\ pre = Constructed
  /\ given = 0
  /\ OPENINGS = OpeningsModule
  /\ game = ChessNew
  /\ currentOpening = RuyLopez
  /\ message = ClickMessage
  /\ highlightSquares = {}
  /\ arrows = <<>>
  /\ gameMode = "Explore"
  /\ isProcessingMove = FALSE
  /\ variationName = JSUndefined
  /\ selectedSquare = JSNull
  /\ timers = <<>>
  /\ event = [op |-> "mount"]

\* What a call that rejected a move can throw: the engine's own Error, or
\* addLine's Error after the engine returned null.
Outcomes(g, lines) ==
  IF addLines(g, lines, "null").outcome.kind = "throw"
  THEN {addLines(g, lines, rej) : rej \in EngineRejects}
  ELSE {addLines(g, lines, "null")}

\* dag.addLines(lines)
AddLines ==
  /\ \E lines \in SeqsUpTo(LinePool, MaxLines - given) :
       \E r \in Outcomes(Graph, lines) :
         /\ nodes' = r.nodes
         /\ fenToLineName' = r.fenToLineName
         /\ chess' = r.chess
         /\ last' = [op |-> "addLines", lines |-> lines, outcome |-> r.outcome,
                     j |-> r.j, k |-> r.k]
         /\ given' = given + Len(lines)
  /\ pre' = Graph
  /\ UNCHANGED trainerVars

\* dag.addLine(movesArray, lineName)
AddLine ==
  /\ given < MaxLines
  /\ \E line \in LinePool, rej \in EngineRejects :
       LET r == addLine(Graph, line.moves, line.name, rej) IN
         /\ r.outcome.kind = "return" => rej = "null"
         /\ nodes' = r.nodes
         /\ fenToLineName' = r.fenToLineName
         /\ chess' = r.chess
         /\ last' = [op |-> "addLine", lines |-> <<line>>, outcome |-> r.outcome,
                     j |-> IF r.k = 0 THEN 0 ELSE 1, k |-> r.k]
  /\ pre' = Graph
  /\ given' = given + 1
  /\ UNCHANGED trainerVars

\* ChessOpening.getNextMoves(fen = this.initialPosition), which returns
\* dag.getNextMoves(fen)
GetNextMoves ==
  /\ \E arg \in QueryArgs :
       LET fen == WithDefault(arg, initialPosition) IN
         last' = [op |-> "getNextMoves", fen |-> fen,
                  outcome |-> getNextMoves(nodes, fen)]
  /\ pre' = Graph
  /\ UNCHANGED <<nodes, fenToLineName, chess, given>>
  /\ UNCHANGED trainerVars

\* ChessOpening.getRandomMove(fen = this.initialPosition), which returns
\* dag.getRandomMove(fen); Math.random() yields r / RandomGrain
GetRandomMove ==
  /\ \E arg \in QueryArgs, r \in 0..(RandomGrain - 1) :
       LET fen == WithDefault(arg, initialPosition) IN
         last' = [op |-> "getRandomMove", fen |-> fen, r |-> r,
                  outcome |-> getRandomMove(nodes, fen, r)]
  /\ pre' = Graph
  /\ UNCHANGED <<nodes, fenToLineName, chess, given>>
  /\ UNCHANGED trainerVars

\* dag.getCurrentLineName(fen)
GetCurrentLineName ==
  /\ \E fen \in QueryStrings :
       last' = [op |-> "getCurrentLineName", fen |-> fen,
                outcome |-> getCurrentLineName(fenToLineName, fen)]
  /\ pre' = Graph
  /\ UNCHANGED <<nodes, fenToLineName, chess, given>>
  /\ UNCHANGED trainerVars

Next ==
  \/ AddLines
  \/ AddLine
  \/ GetNextMoves
  \/ GetRandomMove
  \/ GetCurrentLineName

Spec == Init /\ [][Next]_vars

\* Ingestion alone.  The queries leave nodes, fenToLineName and chess as
\* they are, so the graphs reached are those of Spec.
NextIngest ==
  \/ AddLines
  \/ AddLine

SpecIngest == Init /\ [][NextIngest]_vars

-----------------------------------------------------------------------------
(* The trainer session: user events and timer callbacks, one at a time.     *)

\* The state the handlers of the current render act on.
Session ==
  [game |-> game, currentOpening |-> currentOpening, message |-> message,
   highlightSquares |-> highlightSquares, arrows |-> arrows,
   isProcessingMove |-> isProcessingMove, variationName |-> variationName,
   selectedSquare |-> selectedSquare, timers |-> timers]

\* The state a handler leaves is the state of the next render.
Rendered(s) ==
  /\ Len(s.timers) <= MaxTimers
  /\ game' = s.game
  /\ currentOpening' = s.currentOpening
  /\ message' = s.message
  /\ highlightSquares' = s.highlightSquares
  /\ arrows' = s.arrows
  /\ isProcessingMove' = s.isProcessingMove
  /\ variationName' = s.variationName
  /\ selectedSquare' = s.selectedSquare
  /\ timers' = s.timers

\* What the user drops: each move of the fragment by its squares, and a
\* drop no piece can make.
Drops == {MoveSquares(san) : san \in SanMoves} \cup {[from |-> "e2", to |-> "a4"]}

Randoms == 0..(RandomGrain - 1)

\* <Chessboard onPieceDrop={onDrop} />
OnDrop ==
  /\ \E d \in Drops, r \in Randoms :
       Rendered(onDrop(Session, currentOpening, gameMode, d.from, d.to, r))
  /\ event' = [op |-> "onDrop"]
  /\ UNCHANGED <<gameMode, OPENINGS, dagVars>>

\* <Chessboard onSquareClick={handleSquareClick} />
HandleSquareClick ==
  /\ \E square \in Squares, r \in Randoms :
       Rendered(handleSquareClick(Session, currentOpening, gameMode, square, r))
  /\ event' = [op |-> "handleSquareClick"]
  /\ UNCHANGED <<gameMode, OPENINGS, dagVars>>

\* <Button onClick={() => resetGame(currentOpening)}>Reset Game</Button>
ResetGameButton ==
  /\ \E r \in Randoms :
       Rendered(resetGame(Session, currentOpening, currentOpening, r))
  /\ event' = [op |-> "resetGame"]
  /\ UNCHANGED <<gameMode, OPENINGS, dagVars>>

\* <Select onValueChange={handleSelectOpening} />
HandleSelectOpening ==
  /\ \E i \in 1..Len(OPENINGS), r \in Randoms :
       Rendered(handleSelectOpening(Session, currentOpening, OPENINGS[i].name, r))
  /\ event' = [op |-> "handleSelectOpening"]
  /\ UNCHANGED <<gameMode, OPENINGS, dagVars>>

\* <Switch onCheckedChange={(checked) => setGameMode(checked ? 'Explore' : 'Bust')} />
SetGameMode ==
  /\ \E checked \in BOOLEAN : gameMode' = IF checked THEN "Explore" ELSE "Bust"
  /\ event' = [op |-> "setGameMode"]
  /\ UNCHANGED <<game, currentOpening, message, highlightSquares, arrows,
                 isProcessingMove, variationName, selectedSquare, timers>>
  /\ UNCHANGED <<OPENINGS, dagVars>>

\* Timer i is due before every pending timer that was set earlier: a timer
\* set earlier with the same or a shorter delay is due first.
MayFire(i) == \A j \in 1..(i - 1) : timers[j].delay > timers[i].delay

\* The pending timers without timer i.
Cleared(i) == SubSeq(timers, 1, i - 1) \o SubSeq(timers, i + 1, Len(timers))

\* The 500 ms timer of makeOpponentMove fires.
OpponentMoveTimer ==
  /\ \E i \in 1..Len(timers), r \in Randoms :
       /\ timers[i].kind = "reply"
       /\ MayFire(i)
       /\ Rendered(opponentMoveCallback([Session EXCEPT !.timers = Cleared(i)],
                                        timers[i], r))
       /\ event' = [op |-> "opponentMoveTimer",
                    opponentMove |-> timers[i].opponentMove,
                    currentFen |-> timers[i].currentFen,
                    closure |-> timers[i].closure,
                    playedFrom |-> ChessFen(game),
                    accepted |-> ChessMove(game, timers[i].opponentMove).ok]
  /\ UNCHANGED <<gameMode, OPENINGS, dagVars>>

\* The 1500 ms timer of handleMistake fires, set in Bust mode.
BustTimer ==
  /\ \E i \in 1..Len(timers), r \in Randoms :
       /\ timers[i].kind = "Bust"
       /\ MayFire(i)
       /\ Rendered(bustCallback([Session EXCEPT !.timers = Cleared(i)],
                                timers[i], r))
  /\ event' = [op |-> "bustTimer"]
  /\ UNCHANGED <<gameMode, OPENINGS, dagVars>>

\* The 1500 ms timer of handleMistake fires, set in Explore mode.
ExploreTimer ==
  /\ \E i \in 1..Len(timers) :
       /\ timers[i].kind = "Explore"
       /\ MayFire(i)
       /\ Rendered(exploreCallback([Session EXCEPT !.timers = Cleared(i)],
                                   timers[i]))
  /\ event' = [op |-> "exploreTimer"]
  /\ UNCHANGED <<gameMode, OPENINGS, dagVars>>

NextTrainer ==
  \/ OnDrop
  \/ HandleSquareClick
  \/ ResetGameButton
  \/ HandleSelectOpening
  \/ SetGameMode
  \/ OpponentMoveTimer
  \/ BustTimer
  \/ ExploreTimer

SpecTrainer == Init /\ [][NextTrainer]_vars

-----------------------------------------------------------------------------
(* What the claims speak of.                                                *)

Ingestion == {"addLines", "addLine"}

\* The engine's position after the first n moves of a move list, played
\* from the starting position (the list is legal that far).
RECURSIVE Play(_, _)
Play(moves, n) ==
  IF n = 0 THEN ChessNew ELSE ChessMove(Play(moves, n - 1), moves[n]).chess

RECURSIVE LegalUpTo(_, _)
LegalUpTo(moves, n) ==
  n = 0 \/ (LegalUpTo(moves, n - 1) /\ ChessMove(Play(moves, n - 1), moves[n]).ok)

LegalLine(line) == LegalUpTo(line.moves, Len(line.moves))

PosAfter(moves, n) == ChessFen(Play(moves, n))

\* the array a query returned, as a set
Members(outcome) == Range(outcome.value.v)

\* Some line of ls plays a further move from the position fen.
Continued(ls, fen) ==
  \E x \in 1..Len(ls) : \E n \in 0..(Len(ls[x].moves) - 1) :
    LegalUpTo(ls[x].moves, n + 1) /\ PosAfter(ls[x].moves, n) = fen

\* The graph had moves recorded from the position fen.
HadMoves(g, fen) == fen \in DOMAIN g.nodes /\ g.nodes[fen].moves # <<>>

-----------------------------------------------------------------------------
\* C1: after addLines (addLine) returns for lines that are all legal from
\* the starting position, every line replays through the graph: its i-th
\* move is among getNextMoves of the position the first i-1 moves reach, the
\* edge stored for it leads to the position the first i moves reach, and the
\* position after the last move of a line that nothing continues (no line
\* of the call, no move recorded before it) has empty getNextMoves.
C1_Replay ==
  (last.op \in Ingestion /\ \A x \in 1..Len(last.lines) : LegalLine(last.lines[x]))
  => /\ last.outcome = Returned(JSUndefined)
     /\ \A x \in 1..Len(last.lines) :
          LET moves == last.lines[x].moves IN
            /\ \A i \in 1..Len(moves) :
                 LET from == PosAfter(moves, i - 1) IN
                   /\ getNextMoves(nodes, from).kind = "return"
                   /\ moves[i] \in Members(getNextMoves(nodes, from))
                   /\ ObjGet(nodes[from].moves, moves[i]) = PosAfter(moves, i)
            /\ (~Continued(last.lines, PosAfter(moves, Len(moves)))
                /\ ~HadMoves(pre, PosAfter(moves, Len(moves))))
               => getNextMoves(nodes, PosAfter(moves, Len(moves)))
                    = Returned(JSArray(<<>>))

\* Two legal three-move lines were ingested in one call, and the position
\* both end in is a leaf reached by an edge from each.
C1_Witness ==
  /\ last.op = "addLines"
  /\ last.outcome.kind = "return"
  /\ Len(last.lines) = 2
  /\ last.lines[1].moves = <<"e3", "e6", "d3">>
  /\ last.lines[2].moves = <<"d3", "e6", "e3">>
  /\ getNextMoves(nodes, PosAfter(<<"e3", "e6", "d3">>, 3)) = Returned(JSArray(<<>>))
  /\ getNextMoves(nodes, PosAfter(<<"d3", "e6">>, 2)) = Returned(JSArray(<<"e3">>))

-----------------------------------------------------------------------------
\* Both graphs answer getNextMoves and getCurrentLineName alike, whatever
\* string is asked about.
QueryEquivalent(g, h) ==
  \A fen \in QueryStrings :
    /\ getNextMoves(g.nodes, fen) = getNextMoves(h.nodes, fen)
    /\ getCurrentLineName(g.fenToLineName, fen)
         = getCurrentLineName(h.fenToLineName, fen)

\* C2: idempotence of ingestion.  When addLines(S) has returned for a legal
\* line set S, calling addLines(S) once more returns too and leaves a graph
\* that answers getNextMoves and getCurrentLineName, for every string, as
\* the graph after the first call does.
C2_Idempotent ==
  (last.op = "addLines" /\ \A x \in 1..Len(last.lines) : LegalLine(last.lines[x]))
  => LET again == addLines(Graph, last.lines, "null") IN
       /\ again.outcome = Returned(JSUndefined)
       /\ QueryEquivalent(again, Graph)

\* addLines returned for a line set that the graph had ingested already:
\* the graph before the call had edges, and the call left it as it was.
C2_Witness ==
  /\ last.op = "addLines"
  /\ last.outcome.kind = "return"
  /\ Len(last.lines) >= 1
  /\ pre.nodes # Constructed.nodes
  /\ pre.nodes = nodes
  /\ pre.fenToLineName = fenToLineName

-----------------------------------------------------------------------------
\* The lines of ls that reach the position fen by at least one move, and
\* the moves they play next from it.
Reaching(ls, fen) ==
  {x \in 1..Len(ls) : \E n \in 1..Len(ls[x].moves) : PosAfter(ls[x].moves, n) = fen}

PlayedFrom(ls, fen) ==
  UNION {{ls[x].moves[n + 1] :
            n \in {m \in 0..(Len(ls[x].moves) - 1) : PosAfter(ls[x].moves, m) = fen}} :
         x \in 1..Len(ls)}

FirstReaching(ls, fen) ==
  CHOOSE x \in Reaching(ls, fen) : \A y \in Reaching(ls, fen) : x <= y

\* Two different lines of ls reach fen by different move sequences.
Transposed(ls, fen) ==
  \E x, y \in 1..Len(ls) :
    \E n \in 1..Len(ls[x].moves), m \in 1..Len(ls[y].moves) :
      /\ x # y
      /\ PosAfter(ls[x].moves, n) = fen
      /\ PosAfter(ls[y].moves, m) = fen
      /\ SubSeq(ls[x].moves, 1, n) # SubSeq(ls[y].moves, 1, m)

\* C3: transposition collapse.  After addLines has ingested legal lines
\* into a newly constructed graph, every position that two of the lines
\* reach by different move sequences has one node, its getNextMoves are
\* exactly the moves the lines play from it, and getCurrentLineName gives
\* the name of the first line, in input order, that reaches it.
C3_TranspositionCollapse ==
  (/\ last.op = "addLines"
   /\ last.outcome.kind = "return"
   /\ pre.nodes = Constructed.nodes
   /\ pre.fenToLineName = Constructed.fenToLineName)
  => \A fen \in Fens :
       Transposed(last.lines, fen)
       => /\ fen \in DOMAIN nodes
          /\ nodes[fen].fen = fen
          /\ getNextMoves(nodes, fen).kind = "return"
          /\ Members(getNextMoves(nodes, fen)) = PlayedFrom(last.lines, fen)
          /\ getCurrentLineName(fenToLineName, fen)
               = Returned(JSString(last.lines[FirstReaching(last.lines, fen)].name))

-----------------------------------------------------------------------------
Queries == {"getNextMoves", "getRandomMove", "getCurrentLineName"}

\* C4: getRandomMove(P) returns null exactly when getNextMoves(P) is empty,
\* and when getNextMoves(P) is not empty it returns, whatever Math.random
\* yields, a move of that array.
C4_RandomMove ==
  last.op = "getRandomMove"
  => LET next == getNextMoves(nodes, last.fen) IN
       /\ (last.outcome = Returned(JSNull)) <=> (next = Returned(JSArray(<<>>)))
       /\ (next.kind = "return" /\ next.value.v # <<>>)
          => /\ last.outcome.kind = "return"
             /\ last.outcome.value.t = "string"
             /\ last.outcome.value.v \in Members(next)

\* getRandomMove was asked about a position with several moves and returned
\* one that is not the first.
C4_Witness ==
  /\ last.op = "getRandomMove"
  /\ getNextMoves(nodes, last.fen).kind = "return"
  /\ Len(getNextMoves(nodes, last.fen).value.v) >= 2
  /\ last.outcome = Returned(JSString(getNextMoves(nodes, last.fen).value.v[2]))

\* C5: the queries are total.  For every string that is not the root and
\* that no ingested line reaches, getNextMoves returns the empty array,
\* getRandomMove returns null and getCurrentLineName returns undefined, and
\* none of them throws.
C5_QueriesTotal ==
  (last.op \in Queries /\ last.fen # StartFen /\ last.fen \notin DOMAIN nodes)
  => /\ last.op = "getNextMoves" => last.outcome = Returned(JSArray(<<>>))
     /\ last.op = "getRandomMove" => last.outcome = Returned(JSNull)
     /\ last.op = "getCurrentLineName" => last.outcome = Returned(JSUndefined)

\* C6: when a line holds a move the engine rejects, the error addLines
\* (addLine) throws identifies the rejected move, the name of the line and
\* the position the move was tried from.
C6_InvalidMoveError ==
  (last.op \in Ingestion /\ last.outcome.kind = "throw")
  => LET line == last.lines[last.j]
         told == Range(last.outcome.error.message)
     IN /\ line.moves[last.k] \in told
        /\ line.name \in told
        /\ PosAfter(line.moves, last.k - 1) \in told

\* C7: first writer wins.  Once a position has a line name, no later
\* ingestion changes what getCurrentLineName returns for it.
C7_FirstWriterWins ==
  [][\A fen \in DOMAIN fenToLineName :
       getCurrentLineName(fenToLineName', fen)
         = getCurrentLineName(fenToLineName, fen)]_vars

\* The edges of g are edges of h, with the same targets.
EdgesKept(g, h) ==
  \A fen \in DOMAIN g :
    /\ fen \in DOMAIN h
    /\ \A i \in 1..Len(g[fen].moves) :
         /\ ObjHas(h[fen].moves, g[fen].moves[i].key)
         /\ ObjGet(h[fen].moves, g[fen].moves[i].key) = g[fen].moves[i].val

\* The lines before line j, and line j cut before its move k.
Ingested(ls, j, k) ==
  Append(SubSeq(ls, 1, j - 1),
         [name |-> ls[j].name, moves |-> SubSeq(ls[j].moves, 1, k - 1)])

\* C8: a failure leaves a defined partial state.  When addLines throws on
\* move k of line j, the graph is the one that ingesting the lines before j
\* and the moves before k of line j leaves (all they wrote, nothing of move
\* k, of the later moves or of the later lines), and no node, edge or line
\* name that was there before the call is removed or changed.
C8_PartialState ==
  (last.op = "addLines" /\ last.outcome.kind = "throw")
  => LET r == addLines(pre, Ingested(last.lines, last.j, last.k), "null") IN
       /\ r.outcome.kind = "return"
       /\ nodes = r.nodes
       /\ fenToLineName = r.fenToLineName
       /\ EdgesKept(pre.nodes, nodes)
       /\ \A fen \in DOMAIN pre.fenToLineName :
            getCurrentLineName(fenToLineName, fen)
              = getCurrentLineName(pre.fenToLineName, fen)

\* C9: the graph only grows from a root-only start.  Construction leaves
\* the root node alone, without moves, and every step (an ingestion that
\* returns or throws, or a query) keeps the root node, every node and every
\* edge with its target.
C9_OnlyGrows ==
  /\ DOMAIN nodes = {StartFen}
  /\ nodes[StartFen].moves = <<>>
  /\ [][(StartFen \in DOMAIN nodes') /\ EdgesKept(nodes, nodes')]_vars

\* addLines threw on a graph that had nodes besides the root, after it had
\* added to that graph.
C9_Witness ==
  /\ last.op = "addLines"
  /\ last.outcome.kind = "throw"
  /\ Cardinality(DOMAIN pre.nodes) > 1
  /\ nodes # pre.nodes

\* C10: edge soundness.  For every node A and every move M recorded from A
\* with target B, the engine accepts M from A and yields B, B has a node,
\* and an edge recorded before the last call still has its target.
C10_EdgeSound ==
  /\ \A fen \in DOMAIN nodes :
       /\ \E c \in ChessPositions : ChessFen(c) = fen
       /\ \A i \in 1..Len(nodes[fen].moves) :
            LET e == nodes[fen].moves[i]
                r == ChessMove(PositionOf(fen), e.key)
            IN /\ r.ok
               /\ ChessFen(r.chess) = e.val
               /\ e.val \in DOMAIN nodes
  /\ \A fen \in DOMAIN pre.nodes :
       \A i \in 1..Len(pre.nodes[fen].moves) :
         ObjGet(nodes[fen].moves, pre.nodes[fen].moves[i].key)
           = pre.nodes[fen].moves[i].val

\* An ingestion recorded again a move the root had already, and the root
\* has several moves.
C10_Witness ==
  /\ last.op \in Ingestion
  /\ Len(last.lines) >= 1
  /\ ObjHas(pre.nodes[StartFen].moves, last.lines[1].moves[1])
  /\ Len(nodes[StartFen].moves) >= 2

-----------------------------------------------------------------------------
\* C11: outgoing-move keys are in the engine's notation.  For every node,
\* each key of its moves is the notation the engine reports (moveResult.san)
\* for that move from the node's position, no two keys of a node denote the
\* same move, and for every move the last call ingested, the notation the
\* engine reports for it is among getNextMoves of the position it was played
\* from (so correctMoves.includes(move.san) succeeds in the trainer).
C11_EngineNotation ==
  /\ \A fen \in DOMAIN nodes :
       /\ \A i \in 1..Len(nodes[fen].moves) :
            nodes[fen].moves[i].key
              = ChessMove(PositionOf(fen), nodes[fen].moves[i].key).san
       /\ \A i, j \in 1..Len(nodes[fen].moves) :
            ParseMove(nodes[fen].moves[i].key) = ParseMove(nodes[fen].moves[j].key)
            => i = j
  /\ (last.op \in Ingestion /\ last.outcome.kind = "return")
     => \A x \in 1..Len(last.lines) :
          \A i \in 1..Len(last.lines[x].moves) :
            LET moves == last.lines[x].moves
                from  == Play(moves, i - 1)
            IN ChessMove(from, moves[i]).san
                 \in Members(getNextMoves(nodes, ChessFen(from)))

-----------------------------------------------------------------------------
\* The nodes and the edges of a node map, as sets.
NodeSet(ns) == DOMAIN ns

EdgeSet(ns) ==
  UNION {{<<fen, ns[fen].moves[i].key, ns[fen].moves[i].val>> :
            i \in 1..Len(ns[fen].moves)} : fen \in DOMAIN ns}

\* What a line contributes when it is the only line of a new graph.
Alone(line) == addLine(Constructed, line.moves, line.name, "null")

\* The lines the last call went through: all of them, or on a throw the
\* lines before line j and line j up to the rejected move.
Done ==
  IF last.outcome.kind = "throw"
  THEN Ingested(last.lines, last.j, last.k)
  ELSE last.lines

\* C12: no leakage of the scratch engine between lines.  Every line is
\* replayed from the starting position: whatever graph and whatever scratch
\* position the earlier calls left (also a mid-line position left by a call
\* that threw), a call adds to the nodes and edges exactly what each of its
\* lines contributes to a new graph on its own, and it rejects a move
\* exactly where the line alone on a new graph rejects it.
C12_NoLeakage ==
  last.op \in Ingestion
  => /\ NodeSet(nodes)
          = NodeSet(pre.nodes)
              \cup UNION {NodeSet(Alone(Done[x]).nodes) : x \in 1..Len(Done)}
     /\ EdgeSet(nodes)
          = EdgeSet(pre.nodes)
              \cup UNION {EdgeSet(Alone(Done[x]).nodes) : x \in 1..Len(Done)}
     /\ \A x \in 1..Len(Done) : Alone(Done[x]).outcome.kind = "return"
     /\ last.outcome.kind = "throw"
        => /\ Alone(last.lines[last.j]).outcome.kind = "throw"
           /\ Alone(last.lines[last.j]).k = last.k
     /\ last.outcome.kind = "return"
        => \A x \in 1..Len(last.lines) : LegalLine(last.lines[x])

\* A call that threw had left the scratch engine after 1.e3, in the middle
\* of its line; the next call ingested a line from the starting position
\* and added nodes to the graph.
C12_Witness ==
  /\ last.op \in Ingestion
  /\ pre.chess = ChessApply(ChessNew, "e3")
  /\ pre.chess # ChessNew
  /\ last.outcome.kind = "return"
  /\ Len(last.lines) >= 1
  /\ NodeSet(nodes) # NodeSet(pre.nodes)
  /\ chess # pre.chess

-----------------------------------------------------------------------------
\* C13: the delayed reply meets the position it was chosen for.  Whenever
\* the 500 ms timer of makeOpponentMove fires, under every interleaving
\* with the Reset Game button, the opening selector, the mistake timers,
\* drops and clicks, the board is in the position the reply was chosen for,
\* the engine accepts the reply, and the reply is a move recorded from that
\* position in the graph it was chosen from.
C13_ReplyInPosition ==
  event.op = "opponentMoveTimer"
  => /\ event.playedFrom = event.currentFen
     /\ event.accepted
     /\ event.opponentMove
          \in Members(getNextMoves(event.closure.dag.nodes,
                                   event.playedFrom))

====
